---- MODULE Spec2Model ----
(***************************************************************************)
(* ApiCanvas proxy server (server.js, firebaseAdmin.js): the single route  *)
(* POST /api/proxy, its validation chain, the outbound axios call, the     *)
(* catch block, the global error handler and the fire-and-forget Firestore *)
(* write.                                                                  *)
(*                                                                         *)
(* Strings the code inspects (method, url) are sequences of tokens, so     *)
(* that trim, toUpperCase, toLowerCase, isIn and isURL are computed and    *)
(* not assumed.  A method is a sequence of characters; a url is a sequence *)
(* of lexical pieces ("http", "://", "localhost", ":", "5000", "/", ...).  *)
(***************************************************************************)
EXTENDS Integers, Sequences, FiniteSets, TLC

\* ------------------------------------------------------------------ bounds
\* Number of inbound calls followed (they may be in flight together).
NumCalls == 2
\* Milliseconds the clock advances in one step.
TickMs == 15000
\* The clock is followed up to this value; a call is accepted only while
\* its 30 s timer can still expire before the clock stops.
MaxNow == 30000
\* Runs of handleSend in the browser client.
MaxSends == 2
\* Request documents ever created in the store.
MaxRequests == 2

Calls == 1..NumCalls

\* ------------------------------------------------------------ JS values
\* A string field the caller did not send (`undefined`), for the fields the
\* code reads as strings (method, url).
NoString == <<"\\undefined">>

\* Every other JS value is a tagged record; v is its text.
Undefined == [t |-> "undefined", v |-> ""]
Null == [t |-> "null", v |-> ""]
Str(s) == [t |-> "string", v |-> s]
Num(s) == [t |-> "number", v |-> s]
Bool(s) == [t |-> "boolean", v |-> s]
Obj(s) == [t |-> "object", v |-> s]

\* ToBoolean: undefined, null, "", 0, NaN and false are falsy.
ToBoolean(x) ==
    CASE x.t \in {"undefined", "null"} -> FALSE
      [] x.t = "string" -> x.v # ""
      [] x.t = "number" -> x.v \notin {"0", "NaN"}
      [] x.t = "boolean" -> x.v = "true"
      [] OTHER -> TRUE

\* a || b
OrElse(a, b) == IF ToBoolean(a) THEN a ELSE b

\* ----------------------------------------------------- string functions
WS == {" "}

RECURSIVE DropLeadingWS(_)
DropLeadingWS(s) ==
    IF s = <<>> THEN <<>>
    ELSE IF Head(s) \in WS THEN DropLeadingWS(Tail(s)) ELSE s

RECURSIVE DropTrailingWS(_)
DropTrailingWS(s) ==
    IF s = <<>> THEN <<>>
    ELSE IF s[Len(s)] \in WS THEN DropTrailingWS(SubSeq(s, 1, Len(s) - 1)) ELSE s

\* express-validator's toString: undefined becomes the empty string.
toString(v) == IF v = NoString THEN <<>> ELSE v

\* .trim(): the sanitizer; the trimmed string replaces the field in req.body.
trim(v) == DropTrailingWS(DropLeadingWS(toString(v)))

UpperOf == [c \in {"g", "e", "t", "p", "o", "s", "u", "d", "l", "a", "c", "h", "f"} |->
              CASE c = "g" -> "G" [] c = "e" -> "E" [] c = "t" -> "T"
                [] c = "p" -> "P" [] c = "o" -> "O" [] c = "s" -> "S"
                [] c = "u" -> "U" [] c = "d" -> "D" [] c = "l" -> "L"
                [] c = "a" -> "A" [] c = "c" -> "C" [] c = "h" -> "H"
                [] c = "f" -> "F"]

LowerOf == [c \in {"G", "E", "T", "P", "O", "S", "U", "D", "L", "A", "C", "H", "F"} |->
              CHOOSE l \in DOMAIN UpperOf : UpperOf[l] = c]

\* String.prototype.toUpperCase / toLowerCase, character by character.
toUpperCase(s) == [i \in 1..Len(s) |-> IF s[i] \in DOMAIN UpperOf THEN UpperOf[s[i]] ELSE s[i]]
toLowerCase(s) == [i \in 1..Len(s) |-> IF s[i] \in DOMAIN LowerOf THEN LowerOf[s[i]] ELSE s[i]]

\* The five verbs of .isIn([...]).
GET == <<"G", "E", "T">>
POST == <<"P", "O", "S", "T">>
PUT == <<"P", "U", "T">>
DELETE == <<"D", "E", "L", "E", "T", "E">>
PATCH == <<"P", "A", "T", "C", "H">>
Verbs == {GET, POST, PUT, DELETE, PATCH}

\* .notEmpty() and .isIn(list): standard validators on the string value.
notEmpty(s) == s # <<>>
isInMutCaseInsensitive(s, list) == toUpperCase(s) \in list
isIn(s, list) == s \in list

\* ------------------------------------------------------------- isURL
\* validator.js isURL(str, { require_tld: false }) on a tokenised url; the
\* other options keep their defaults (protocols http/https/ftp,
\* require_protocol false, require_host true, require_valid_protocol true,
\* allow_protocol_relative_urls false).
Contains(s, tok) == \E i \in 1..Len(s) : s[i] = tok
IndexOf(s, tok) == CHOOSE i \in 1..Len(s) : s[i] = tok /\ \A j \in 1..(i - 1) : s[j] # tok

\* str.split(sep)
RECURSIVE Split(_, _)
Split(s, sep) ==
    IF ~Contains(s, sep) THEN <<s>>
    ELSE LET i == IndexOf(s, sep)
         IN  <<SubSeq(s, 1, i - 1)>> \o Split(SubSeq(s, i + 1, Len(s)), sep)

\* parts.join(sep)
RECURSIVE Join(_, _)
Join(parts, sep) ==
    IF parts = <<>> THEN <<>>
    ELSE IF Len(parts) = 1 THEN parts[1]
    ELSE parts[1] \o <<sep>> \o Join(Tail(parts), sep)

\* Tokens that are runs of digits, with their value (parseInt(tok, 10)).
DigitValue == [tok \in {"0", "1", "127", "5000", "99999"} |->
                 CASE tok = "0" -> 0 [] tok = "1" -> 1 [] tok = "127" -> 127
                   [] tok = "5000" -> 5000 [] tok = "99999" -> 99999]
\* Tokens made only of letters, digits and inner hyphens.
WordTokens == {"localhost", "example", "com", "api", "nonexistent", "invalid",
               "users", "x", "not", "a", "url"} \cup DOMAIN DigitValue
ValidProtocols == {"http", "https", "ftp"}

\* /^[0-9]+$/ on a piece
IsDigits(piece) == Len(piece) = 1 /\ piece[1] \in DOMAIN DigitValue

\* isIP(host): dotted quad, every part 0..255 (version 4 is all the model's
\* alphabet can spell).
isIP(host) ==
    LET parts == Split(host, ".")
    IN  /\ Len(parts) = 4
        /\ \A i \in 1..4 : IsDigits(parts[i]) /\ DigitValue[parts[i][1]] <= 255

\* isFQDN(host, { require_tld: false }): a numeric last label is rejected,
\* every label is non-empty and made of allowed characters.
isFQDNMutRequireTld(host) ==
    LET parts == Split(host, ".")
        tld == parts[Len(parts)]
    IN  /\ Len(parts) >= 2
        /\ ~IsDigits(tld)
        /\ \A i \in 1..Len(parts) :
              /\ parts[i] # <<>>
              /\ \A j \in 1..Len(parts[i]) : parts[i][j] \in WordTokens
isFQDN(host) ==
    LET parts == Split(host, ".")
        tld == parts[Len(parts)]
    IN  /\ ~IsDigits(tld)
        /\ \A i \in 1..Len(parts) :
              /\ parts[i] # <<>>
              /\ \A j \in 1..Len(parts[i]) : parts[i][j] \in WordTokens

isURLAfterProtocol(rest) ==
    IF rest = <<>> THEN FALSE
    ELSE LET hostport == Split(rest, "/")[1]
             hp == Split(hostport, ":")
             host == hp[1]
             port_str == Join(Tail(hp), ":")
             portOk == \/ Len(hp) = 1
                       \/ port_str = <<>>
                       \/ /\ IsDigits(port_str)
                          /\ DigitValue[port_str[1]] > 0
                          /\ DigitValue[port_str[1]] <= 65535
         IN  portOk /\ (isIP(host) \/ isFQDN(host))

isURL(url) ==
    IF url = <<>> \/ \E i \in 1..Len(url) : url[i] \in WS THEN FALSE
    ELSE LET split == Split(url, "://")
         IN  IF Len(split) > 1
             THEN /\ Len(split[1]) = 1
                  /\ split[1][1] \in ValidProtocols
                  /\ isURLAfterProtocol(Join(Tail(split), "://"))
             ELSE /\ ~(Len(url) >= 2 /\ url[1] = "/" /\ url[2] = "/")
                  /\ isURLAfterProtocol(url)

\* ------------------------------------------------------ proxyValidation
MsgMethodRequired == "method is required"
MsgMethodOneOf == "method must be one of: GET, POST, PUT, DELETE, PATCH"
MsgUrlRequired == "url is required"
MsgUrlValid == "url must be a valid URL"

FieldError(path, value, msg) ==
    [type |-> "field", value |-> value, msg |-> msg, path |-> path, location |-> "body"]

\* body("method").trim().notEmpty().withMessage(..).isIn([..]).withMessage(..):
\* every validator of the chain runs on the trimmed value (no bail).
methodErrors(value) ==
    (IF notEmpty(value) THEN <<>> ELSE <<FieldError("method", value, MsgMethodRequired)>>)
    \o (IF isIn(value, Verbs) THEN <<>> ELSE <<FieldError("method", value, MsgMethodOneOf)>>)

\* body("url").trim().notEmpty().withMessage(..).isURL({require_tld:false}).withMessage(..)
urlErrors(value) ==
    (IF notEmpty(value) THEN <<>> ELSE <<FieldError("url", value, MsgUrlRequired)>>)
    \o (IF isURL(value) THEN <<>> ELSE <<FieldError("url", value, MsgUrlValid)>>)

\* The sanitizers' effect on req.body: method and url are replaced by their
\* trimmed values; the other fields are left as sent.
sanitize(body) == [body EXCEPT !.method = trim(body.method), !.url = trim(body.url)]

\* validationResult(req).array() after the chain ran.
proxyValidationMutFirstOnly(body) ==
    LET all == methodErrors(trim(body.method)) \o urlErrors(trim(body.url))
    IN  IF all = <<>> THEN <<>> ELSE <<all[1]>>
proxyValidationMutChecksHeaders(body) ==
    methodErrors(trim(body.method)) \o urlErrors(trim(body.url))
    \o (IF body.headers.t \in {"object", "undefined"} THEN <<>>
        ELSE <<FieldError("headers", <<>>, "headers must be an object")>>)
proxyValidationMutAcceptAll(body) == <<>>
proxyValidation(body) ==
    methodErrors(trim(body.method)) \o urlErrors(trim(body.url))

\* ------------------------------------------------------------- inputs
\* Request bodies as express.json() hands them to the route: the six fields
\* the route destructures.

UrlApi == <<"https", "://", "api", ".", "example", ".", "com", "/", "users", "/", "1">>
UrlLocal == <<"http", "://", "localhost", ":", "5000">>
UrlLocalPadded == <<" ">> \o UrlLocal \o <<" ">>
UrlIp == <<"http", "://", "127", ".", "0", ".", "0", ".", "1", ":", "5000", "/", "x">>
UrlUnresolvable == <<"http", "://", "nonexistent", ".", "invalid", "/", "x">>
UrlSpaces == <<"not", " ", "a", " ", "url">>
UrlNoHost == <<"http", "://">>
UrlBadPort == <<"http", "://", "localhost", ":", "99999">>
UrlBadProtocol == <<"javascript", "://", "example", ".", "com">>
UrlBare == <<"example", ".", "com">>
UrlBarePort == <<"localhost", ":", "5000", "/", "x">>
UrlLocalNoPort == <<"http", "://", "localhost">>
UrlLocalPath == <<"http", "://", "localhost", "/", "users">>

PaddedPost == <<" ">> \o POST \o <<" ">>
LowerGet == <<"g", "e", "t">>
MixedPost == <<"P", "o", "s", "t">>
Fetch == <<"F", "E", "T", "C", "H">>

Req(m, u, h, b, p, uid) ==
    [method |-> m, url |-> u, headers |-> h, body |-> b, params |-> p, user_id |-> uid]
Bare(m, u) == Req(m, u, Undefined, Undefined, Undefined, Undefined)
Full(m, u) ==
    Req(m, u, Obj("{\"X-Trace\":\"1\"}"), Obj("{\"name\":\"Ana\"}"),
        Obj("{\"page\":\"2\"}"), Str("user-1"))

\* The bodies a single call is followed with.
MethodInputs ==
    {NoString, <<>>, <<" ">>, GET, POST, PUT, DELETE, PATCH, PaddedPost, LowerGet,
     MixedPost, Fetch}
UrlInputs ==
    {NoString, <<>>, UrlApi, UrlLocal, UrlLocalPadded, UrlIp, UrlUnresolvable,
     UrlSpaces, UrlNoHost, UrlBadPort, UrlBadProtocol, UrlBare, UrlBarePort,
     UrlLocalNoPort, UrlLocalPath}
RequestBodies ==
    {Bare(m, u) : m \in MethodInputs, u \in UrlInputs}
    \cup {Full(m, u) : m \in {PaddedPost, PUT, LowerGet}, u \in {UrlLocal, UrlSpaces}}

\* The request of Full(PaddedPost, UrlLocal) with another user_id, and the
\* user_id values followed: absent, null, falsy and truthy.
WithUser(uid) == [Full(PaddedPost, UrlLocal) EXCEPT !.user_id = uid]
UserIds == {Undefined, Null, Str(""), Str("user-1"), Str("user-2")}
\* The bodies two calls compared with one another are followed with.
PairBodies == {WithUser(uid) : uid \in UserIds} \cup {Bare(GET, UrlApi)}

\* Bodies whose headers, body, params and user_id take every kind of JSON
\* value: absent, null, falsy, text, structured.
ShapedHeaders == {Undefined, Null, Obj("{}"), Obj("{\"X-Trace\":\"1\"}")}
ShapedPayloads ==
    {Undefined, Null, Num("0"), Bool("false"), Str(""), Str("{not json"), Num("1"),
     Obj("{\"name\":\"Ana\"}")}
ShapedParams == {Undefined, Null, Obj("{\"page\":\"2\"}")}
ShapedBodies ==
    {Req(m, u, h, b, p, uid) :
        m \in {GET, LowerGet}, u \in {UrlLocalPadded, UrlSpaces}, h \in ShapedHeaders,
        b \in ShapedPayloads, p \in ShapedParams, uid \in {Undefined, Str("user-1")}}

\* The bodies calls in flight together are followed with.
ConcurrentBodies ==
    {Bare(GET, UrlApi), Full(PaddedPost, UrlLocal), Bare(LowerGet, UrlApi)}

\* The Firestore SDK validates a document when add(..) is called and throws
\* on one nested deeper than this many levels below its top-level field.
MAX_DEPTH == 20

\* A response body is the text axios hands over (transformResponse keeps it
\* a string), as a sequence of lexical pieces: JSON punctuation, string and
\* number literals, words, blanks.  EAcute is one character of two bytes.
EAcute == "<U+00E9>"
BodyAna == <<"{", "\"id\"", ":", "1", ",", "\"name\"", ":", "\"Ana\"", "}">>
BodyEmptyObject == <<"{", "}">>
BodySpaced == <<"{", " ", "\"id\"", " ", ":", " ", "1", " ", "}", "\n">>
BodyList == <<"[", "1", ",", "[", "true", ",", "null", "]", ",", "{", "\"id\"", ":", "1", "}", "]">>
BodyText == <<"not", " ", "json", " ", "at", " ", "all">>
BodyAccent == <<"caf", EAcute>>
BodyTruncated == <<"{", "\"id\"", ":">>
BodyTrailing == <<"{", "}", " ", "x">>
BodyQuoted == <<"\"Ana\"">>
BodyNumber == <<"1">>
BodyNull == <<"null">>
BodyNone == <<>>
\* n arrays inside one another: [[..[]..]]
Nested(n) == [i \in 1..(2 * n) |-> IF i <= n THEN "[" ELSE "]"]

\* What the origin can send back: any status line, with a body.
Reply(status, statusText, data) ==
    [status |-> status, statusText |-> statusText,
     headers |-> Obj("{\"content-type\":\"application/json\"}"), data |-> data]
OriginReplies ==
    { Reply(100, "Continue", BodyNone),
      Reply(200, "OK", BodyAna),
      Reply(200, "OK", BodyEmptyObject),
      Reply(200, "OK", BodySpaced),
      Reply(200, "OK", BodyList),
      Reply(200, "OK", BodyAccent),
      Reply(200, "OK", BodyTruncated),
      Reply(200, "OK", BodyTrailing),
      Reply(200, "OK", BodyQuoted),
      Reply(201, "Created", BodyNumber),
      Reply(200, "OK", BodyNull),
      Reply(200, "OK", Nested(MAX_DEPTH + 1)),
      Reply(200, "OK", Nested(MAX_DEPTH + 2)),
      Reply(404, "Not Found", BodyText),
      Reply(500, "Internal Server Error", BodyEmptyObject),
      Reply(502, "Bad Gateway", BodyNone),
      Reply(504, "Gateway Timeout", BodyText),
      Reply(599, "", BodyEmptyObject) }
ConcurrentReplies ==
    { Reply(200, "OK", BodyAna),
      Reply(404, "Not Found", BodyText) }

PairReplies ==
    { Reply(200, "OK", BodyAna),
      Reply(404, "Not Found", BodyText),
      Reply(200, "OK", Nested(MAX_DEPTH + 2)) }

\* Errors: code is "" when the error object has no code property.
Err(code, message) == [code |-> code, message |-> message]
\* What the transport can reject with before the timer expires.
TransportErrors ==
    { Err("ENOTFOUND", "getaddrinfo ENOTFOUND nonexistent.invalid"),
      Err("ECONNREFUSED", "connect ECONNREFUSED 127.0.0.1:5000"),
      Err("ECONNRESET", "socket hang up"),
      Err("ETIMEDOUT", "") }
ConcurrentErrors ==
    { Err("ENOTFOUND", "getaddrinfo ENOTFOUND nonexistent.invalid"),
      Err("ECONNRESET", "socket hang up") }
PairErrors == { Err("ENOTFOUND", "getaddrinfo ENOTFOUND nonexistent.invalid") }
\* axios' own timeout error (code ECONNABORTED).
TimeoutError == Err("ECONNABORTED", "timeout of 30000ms exceeded")
\* A throw out of db.collection(..).add(..) itself (a TypeError on a null
\* handle, a document the SDK refuses): an Error without a code.
SubmitError == Err("", "Value for argument \"data\" is not a valid Firestore document.")
\* express.json() on an unparseable body.
ParseError == Err("", "Unexpected token in JSON")

\* ------------------------------------------------------------- the route
\* timeout: 30000 of axiosConfig.
TIMEOUT == 30000

\* validateStatus: () => true
validateStatus(status) == TRUE

\* axiosConfig, from the destructured (sanitized) req.body; headers = {} when
\* the caller sent none.  For axios, timeout 0 means no timeout.
axiosConfigMutNoTimeout(body) ==
    [method |-> toLowerCase(body.method),
     url |-> body.url,
     headers |-> IF body.headers = Undefined THEN Obj("{}") ELSE body.headers,
     params |-> body.params,
     data |-> body.body,
     timeout |-> 0]
axiosConfigMutOmitsBodyless(body) ==
    [method |-> toLowerCase(body.method),
     url |-> body.url,
     headers |-> IF body.headers = Undefined THEN Obj("{}") ELSE body.headers,
     params |-> body.params,
     data |-> IF body.method \in {GET, DELETE} THEN Undefined ELSE body.body,
     timeout |-> TIMEOUT]
axiosConfigMutSendsUser(body) ==
    [method |-> toLowerCase(body.method),
     url |-> body.url,
     headers |-> IF ToBoolean(body.user_id)
                 THEN Obj("{\"X-User\":\"" \o body.user_id.v \o "\"}")
                 ELSE IF body.headers = Undefined THEN Obj("{}") ELSE body.headers,
     params |-> body.params,
     data |-> body.body,
     timeout |-> TIMEOUT]
axiosConfig(body) ==
    [method |-> toLowerCase(body.method),
     url |-> body.url,
     headers |-> IF body.headers = Undefined THEN Obj("{}") ELSE body.headers,
     params |-> body.params,
     data |-> body.body,
     timeout |-> TIMEOUT]

\* The text of a token sequence.
RECURSIVE Text(_)
Text(toks) == IF toks = <<>> THEN "" ELSE Head(toks) \o Text(Tail(toks))

\* JSON.parse on the raw response text, by recursive descent.  A parse gives
\* the type of the value, its text without insignificant blanks (what
\* JSON.stringify gives back), how many levels it is nested, and where it
\* ended.
JSONWhitespace == {" ", "\n"}
StringLiterals == ("\"id\"" :> "id") @@ ("\"name\"" :> "name") @@ ("\"Ana\"" :> "Ana")
NumberLiterals == {"0", "1", "42"}
At(toks, i) == IF i \in 1..Len(toks) THEN toks[i] ELSE "\\end"
Parsed(t, text, levels, next) ==
    [ok |-> TRUE, t |-> t, text |-> text, levels |-> levels, next |-> next]
SyntaxError == [ok |-> FALSE, t |-> "", text |-> "", levels |-> 0, next |-> 0]
Max(a, b) == IF a >= b THEN a ELSE b

RECURSIVE SkipWS(_, _)
SkipWS(toks, i) ==
    IF At(toks, i) \in JSONWhitespace THEN SkipWS(toks, i + 1) ELSE i

RECURSIVE ParseValue(_, _), ParseElements(_, _, _, _), ParseMembers(_, _, _, _)
ParseValue(toks, i0) ==
    LET i == SkipWS(toks, i0)
        tok == At(toks, i)
        j == SkipWS(toks, i + 1)
    IN  CASE tok = "[" -> IF At(toks, j) = "]" THEN Parsed("object", "[]", 1, j + 1)
                          ELSE ParseElements(toks, j, "[", 1)
          [] tok = "{" -> IF At(toks, j) = "}" THEN Parsed("object", "{}", 1, j + 1)
                          ELSE ParseMembers(toks, j, "{", 1)
          [] tok \in DOMAIN StringLiterals -> Parsed("string", tok, 1, i + 1)
          [] tok \in NumberLiterals -> Parsed("number", tok, 1, i + 1)
          [] tok \in {"true", "false"} -> Parsed("boolean", tok, 1, i + 1)
          [] tok = "null" -> Parsed("null", tok, 1, i + 1)
          [] OTHER -> SyntaxError
ParseElements(toks, i, acc, levels) ==
    LET v == ParseValue(toks, i)
        k == SkipWS(toks, v.next)
        deep == Max(levels, 1 + v.levels)
    IN  IF ~v.ok THEN SyntaxError
        ELSE CASE At(toks, k) = "," -> ParseElements(toks, k + 1, acc \o v.text \o ",", deep)
               [] At(toks, k) = "]" -> Parsed("object", acc \o v.text \o "]", deep, k + 1)
               [] OTHER -> SyntaxError
ParseMembers(toks, i, acc, levels) ==
    LET k0 == SkipWS(toks, i)
        k1 == SkipWS(toks, k0 + 1)
        v == ParseValue(toks, k1 + 1)
        k == SkipWS(toks, v.next)
        deep == Max(levels, 1 + v.levels)
        text == acc \o At(toks, k0) \o ":" \o v.text
    IN  IF At(toks, k0) \notin DOMAIN StringLiterals \/ At(toks, k1) # ":" THEN SyntaxError
        ELSE IF ~v.ok THEN SyntaxError
        ELSE CASE At(toks, k) = "," -> ParseMembers(toks, k + 1, text \o ",", deep)
               [] At(toks, k) = "}" -> Parsed("object", text \o "}", deep, k + 1)
               [] OTHER -> SyntaxError
JSONparse(raw) ==
    LET r == ParseValue(raw, 1)
    IN  IF r.ok /\ SkipWS(raw, r.next) > Len(raw) THEN r ELSE SyntaxError
JSONparses(raw) == JSONparse(raw).ok
\* The JS value of a parse.
ValueOf(r) ==
    CASE r.t = "string" -> Str(StringLiterals[r.text])
      [] r.t = "number" -> Num(r.text)
      [] r.t = "boolean" -> Bool(r.text)
      [] r.t = "null" -> Null
      [] OTHER -> Obj(r.text)

\* try { JSON.parse(data) } catch { data }
responseDataMutNoParse(raw) == Str(Text(raw))
responseData(raw) == IF JSONparses(raw) THEN ValueOf(JSONparse(raw)) ELSE Str(Text(raw))

\* Buffer.byteLength(s, "utf-8"): one byte for an ASCII character, two for
\* EAcute.
RECURSIVE byteLength(_)
byteLength(toks) ==
    IF toks = <<>> THEN 0
    ELSE (IF Head(toks) = EAcute THEN 2 ELSE Len(Head(toks))) + byteLength(Tail(toks))
\* const responseTime = Date.now() - startTime
responseTimeMsMutClock(clock, start) == clock
responseTimeMs(clock, start) == clock - start

\* typeof x === "object" (true of null too)
IsObjectType(x) == x.t \in {"object", "null"}
\* JSON text of a value, for the { raw: x } wrapper.
Render(x) ==
    CASE x.t = "string" -> "\"" \o x.v \o "\""
      [] x.t = "null" -> "null"
      [] OTHER -> x.v

\* Buffer.byteLength(typeof data === "string" ? data : JSON.stringify(data)):
\* axiosResponse.data is the raw string, so the first branch is taken.
responseSizeMutOfParsed(raw) == Len(Render(responseData(raw)))
responseSize(raw) == byteLength(raw)

Response(status, body) == [status |-> status, body |-> body]

\* proxyResponse
proxyResponseMutTimingHeader(reply, responseTime) ==
    [status |-> reply.status,
     statusText |-> reply.statusText,
     headers |-> IF responseTime = 0 THEN reply.headers
                 ELSE Obj("{\"content-type\":\"application/json\",\"x-response-time\":\"slow\"}"),
     data |-> responseData(reply.data),
     responseTime |-> responseTime,
     responseSize |-> responseSize(reply.data)]
proxyResponse(reply, responseTime) ==
    [status |-> reply.status,
     statusText |-> reply.statusText,
     headers |-> reply.headers,
     data |-> responseData(reply.data),
     responseTime |-> responseTime,
     responseSize |-> responseSize(reply.data)]

\* The document handed to db.collection("request_logs").add(..).
auditDocumentMutOuterStatus(body, reply, responseTime, timestamp) ==
    [user_id |-> OrElse(body.user_id, Null),
     method |-> toUpperCase(body.method),
     url |-> body.url,
     status_code |-> 200,
     response_time_ms |-> responseTime,
     response_size_bytes |-> responseSize(reply.data),
     response_body |-> IF IsObjectType(responseData(reply.data))
                       THEN responseData(reply.data)
                       ELSE Obj("{\"raw\":" \o Render(responseData(reply.data)) \o "}"),
     request_body |-> OrElse(body.body, Null),
     timestamp |-> timestamp]
auditDocument(body, reply, responseTime, timestamp) ==
    [user_id |-> OrElse(body.user_id, Null),
     method |-> toUpperCase(body.method),
     url |-> body.url,
     status_code |-> reply.status,
     response_time_ms |-> responseTime,
     response_size_bytes |-> responseSize(reply.data),
     response_body |-> IF IsObjectType(responseData(reply.data))
                       THEN responseData(reply.data)
                       ELSE Obj("{\"raw\":" \o Render(responseData(reply.data)) \o "}"),
     request_body |-> OrElse(body.body, Null),
     timestamp |-> timestamp]

\* The global error-handling middleware.
globalErrorHandler(err) ==
    Response(500, [error |-> "Internal Server Error",
                   message |-> <<IF err.message # "" THEN err.message
                                 ELSE "Something went wrong on the proxy server.">>])

\* The catch block of the route: what it sends for a caught error.
catchHandlerMutNoTimeoutBranch(error) ==
    IF error.code \in {"ENOTFOUND", "ECONNREFUSED"}
    THEN Response(502, [error |-> "Bad Gateway",
                        message |-> <<"Unable to reach the external API: ", error.message>>])
    ELSE globalErrorHandler(error)
catchHandlerMutOnlyNotFound(error) ==
    IF error.code = "ECONNABORTED"
    THEN Response(504, [error |-> "Gateway Timeout",
                        message |-> <<"The external API did not respond within 30 seconds.">>])
    ELSE IF error.code = "ENOTFOUND"
    THEN Response(502, [error |-> "Bad Gateway",
                        message |-> <<"Unable to reach the external API: ", error.message>>])
    ELSE globalErrorHandler(error)
catchHandlerMutAllBadGateway(error) ==
    IF error.code = "ECONNABORTED"
    THEN Response(504, [error |-> "Gateway Timeout",
                        message |-> <<"The external API did not respond within 30 seconds.">>])
    ELSE Response(502, [error |-> "Bad Gateway",
                        message |-> <<"Unable to reach the external API: ", error.message>>])
catchHandler(error) ==
    IF error.code = "ECONNABORTED"
    THEN Response(504, [error |-> "Gateway Timeout",
                        message |-> <<"The external API did not respond within 30 seconds.">>])
    ELSE IF error.code \in {"ENOTFOUND", "ECONNREFUSED"}
    THEN Response(502, [error |-> "Bad Gateway",
                        message |-> <<"Unable to reach the external API: ", error.message>>])
    ELSE globalErrorHandler(error)

\* if (db): the write is attempted only with a sink handle.
NoSink == "no-sink"
Firestore == "firestore"
sinkGuardMutAlways(handle) == TRUE
sinkGuard(handle) == handle # NoSink

\* The promise chain db...add(..).then(..).catch(..) is not awaited: the route
\* goes on to res.status(200).json(..) in the same turn.
awaitsAuditMutAwaited == TRUE
awaitsAudit == FALSE

\* What calling db.collection(..).add(doc) does at the call itself: it throws
\* on a null handle (TypeError) and on a document the SDK's validation
\* refuses, and returns a promise otherwise.  The request bodies followed are
\* flat, so the depth of a document is that of its response_body, the parsed
\* reply or the { raw: text } wrapper.
documentLevels(raw) ==
    IF IsObjectType(responseData(raw)) THEN JSONparse(raw).levels ELSE 2
SubmitOutcomes(handle, raw) ==
    IF handle = NoSink \/ documentLevels(raw) - 1 > MAX_DEPTH THEN {"threw"} ELSE {"pending"}

\* collection.add(doc): a new document under a fresh id; the documents
\* already stored stay as they are.
addMutSet(collection, record) == {record}
add(collection, record) == collection \cup {record}

\* --------------------------------------------------------------- state
VARIABLES
    db,          \* module.exports of firebaseAdmin.js: the Firestore handle or null
    now,         \* Date.now()
    pc,          \* per call: "idle", "awaiting" (at await axios), "awaitingAudit", "done"
    input,       \* per call: the body as the caller sent it
    reqBody,     \* per call: req.body as the route reads it (after the sanitizers)
    startTime,   \* per call: const startTime (0 outside the handler's run)
    outbound,    \* per call: the axios calls dispatched, in order
    axiosResult, \* per call: what await axios(..) produced
    caught,      \* per call: the error the route's catch block (or express) received
    sent,        \* per call: the responses written on res, in order
    audit,       \* per call: "none", "threw", "pending", "resolved", "rejected"
    auditDoc,    \* per call: the document passed to add(..)
    logs,        \* the request_logs collection
    \* RequestBuilder.jsx and the store of useStore.js
    urlInput,       \* const [url, setUrl]
    authType,       \* const [authType, setAuthType]
    basicUsername,  \* const [basicUsername, setBasicUsername]
    isLoading,      \* store: isLoading
    activeResponse, \* store: activeResponse
    runs,           \* how many times handleSend has been entered
    posts,          \* per run of handleSend: where it stands and what it posted
    shown,          \* the run of handleSend that wrote activeResponse last (0: none)
    \* CollectionSidebar and the Firestore collections it works on
    collectionsStore, \* Firestore "collections": the ids of the documents
    requestsStore,    \* Firestore "requests": the documents (id, collection_id)
    created,          \* how many request documents have been created
    collections,      \* const [collections, setCollections]: the ids listed
    requests,         \* const [requests, setRequests]: per collection, the cached list
    expandedId,       \* const [expandedId, setExpandedId] ("null": none)
    confirmingDelete, \* const [confirmingDelete, setConfirmingDelete]
    savingTo,         \* const [savingTo, setSavingTo]
    fetching,         \* collections with a getDocs of fetchRequests awaited
    saving,           \* collections with an addDoc of handleSaveRequest awaited
    removing,         \* requests with a deleteDoc of handleDeleteRequest awaited
    deleting          \* per collection: where handleDeleteCollection stands

serverVars == <<db, now, pc, input, reqBody, startTime, outbound, axiosResult, caught,
                sent, audit, auditDoc, logs>>
builderVars == <<urlInput, authType, basicUsername, isLoading, activeResponse, runs,
                 posts, shown>>
sidebarVars == <<collectionsStore, requestsStore, created, collections, requests,
                 expandedId, confirmingDelete, savingTo, fetching, saving, removing,
                 deleting>>
clientVars == <<builderVars, sidebarVars>>
vars == <<serverVars, clientVars>>

NoError == Err("", "\\none")
NoReply == Reply(0, "", <<>>)
NoBody == Bare(NoString, NoString)
NoDoc == auditDocument(sanitize(Bare(<<>>, <<>>)), NoReply, 0, 0)
Pending == [kind |-> "none", reply |-> NoReply, error |-> NoError]
Resolved(reply) == [kind |-> "reply", reply |-> reply, error |-> NoError]
Rejected(error) == [kind |-> "error", reply |-> NoReply, error |-> error]

\* The runs of handleSend that are followed.
Sends == 1..MaxSends
NoPayload == Bare(NoString, NoString)
NoPost == [pc |-> "none", payload |-> NoPayload]

\* RequestBuilder's useState defaults and the store's initial values.
InitBuilder ==
    /\ urlInput = <<>>
    /\ authType = "none"
    /\ basicUsername = <<>>
    /\ isLoading = FALSE
    /\ activeResponse = Null
    /\ runs = 0
    /\ posts = [n \in Sends |-> NoPost]
    /\ shown = 0

\* Firestore's "collections" and "requests" as the sidebar sees them: one
\* collection of the signed-in user, and request documents by id.
CollectionIds == {"col-1"}
RequestIds == 1..MaxRequests
RequestDoc(id, collectionId) == [id |-> id, collection_id |-> collectionId]

\* where("collection_id", "==", collectionId) over a state of "requests".
RequestsOf(store, collectionId) == {r \in store : r.collection_id = collectionId}

\* What the user types into the request name field.
TypedNames == {<<>>, <<"n", "e", "w">>}

NotLoaded == [loaded |-> FALSE, ids |-> {}]
Loaded(ids) == [loaded |-> TRUE, ids |-> ids]
NotDeleting == [pc |-> "idle", remaining |-> {}, removed |-> {}, expandedId |-> "null"]

\* The sidebar after its first fetchCollections, over a store that holds
\* the collection and one request saved in it.
InitSidebar ==
    /\ collectionsStore = CollectionIds
    /\ requestsStore = {RequestDoc(1, c) : c \in CollectionIds}
    /\ created = 1
    /\ collections = CollectionIds
    /\ requests = [c \in CollectionIds |-> NotLoaded]
    /\ expandedId = "null"
    /\ confirmingDelete = "null"
    /\ savingTo = "null"
    /\ fetching = {}
    /\ saving = {}
    /\ removing = {}
    /\ deleting = [c \in CollectionIds |-> NotDeleting]

\* firebaseAdmin.js runs once at start: db is the handle, or stays null when
\* the service account cannot be loaded or initializeApp throws.
Init ==
    /\ db \in {NoSink, Firestore}
    /\ now = 0
    /\ pc = [c \in Calls |-> "idle"]
    /\ input = [c \in Calls |-> [parsed |-> FALSE, body |-> NoBody]]
    /\ reqBody = [c \in Calls |-> NoBody]
    /\ startTime = [c \in Calls |-> 0]
    /\ outbound = [c \in Calls |-> <<>>]
    /\ axiosResult = [c \in Calls |-> Pending]
    /\ caught = [c \in Calls |-> NoError]
    /\ sent = [c \in Calls |-> <<>>]
    /\ audit = [c \in Calls |-> "none"]
    /\ auditDoc = [c \in Calls |-> NoDoc]
    /\ logs = {}
    /\ InitBuilder
    /\ InitSidebar

\* res.status(..).json(..) and the end of the handler's run (its locals go
\* out of scope).
FinishMutSharedRes(c, response) ==
    LET waiting == {d \in Calls : d # c /\ pc[d] = "awaiting"}
        target == IF waiting = {} THEN c ELSE CHOOSE d \in waiting : TRUE
    IN  /\ sent' = [sent EXCEPT ![target] = Append(@, response)]
        /\ pc' = [pc EXCEPT ![c] = "done"]
        /\ startTime' = [startTime EXCEPT ![c] = 0]
Finish(c, response) ==
    /\ sent' = [sent EXCEPT ![c] = Append(@, response)]
    /\ pc' = [pc EXCEPT ![c] = "done"]
    /\ startTime' = [startTime EXCEPT ![c] = 0]

\* A body express.json() cannot parse: the route is not entered, the error
\* goes to the global error handler.
BodyParseFailure(c) ==
    /\ pc[c] = "idle"
    /\ now + TIMEOUT <= MaxNow
    /\ input' = [input EXCEPT ![c] = [parsed |-> FALSE, body |-> NoBody]]
    /\ caught' = [caught EXCEPT ![c] = ParseError]
    /\ Finish(c, globalErrorHandler(ParseError))
    /\ UNCHANGED clientVars
    /\ UNCHANGED <<db, now, reqBody, outbound, axiosResult, audit, auditDoc, logs>>

\* POST /api/proxy up to `await axios(axiosConfig)`: the validation chain,
\* the 400 answer, or the dispatch of the outbound call.
Receive(c, body) ==
    /\ pc[c] = "idle"
    /\ input' = [input EXCEPT ![c] = [parsed |-> TRUE, body |-> body]]
    /\ reqBody' = [reqBody EXCEPT ![c] = sanitize(body)]
    /\ IF proxyValidation(body) # <<>>
       THEN /\ Finish(c, Response(400, [errors |-> proxyValidation(body)]))
            /\ UNCHANGED outbound
       ELSE /\ startTime' = [startTime EXCEPT ![c] = now]
            /\ outbound' = [outbound EXCEPT ![c] = Append(@, axiosConfig(sanitize(body)))]
            /\ pc' = [pc EXCEPT ![c] = "awaiting"]
            /\ UNCHANGED sent
    /\ UNCHANGED clientVars
    /\ UNCHANGED <<db, now, axiosResult, caught, audit, auditDoc, logs>>

\* The catch block (and, through next(error), the global error handler).
Catch(c, error) ==
    /\ caught' = [caught EXCEPT ![c] = error]
    /\ Finish(c, catchHandler(error))

\* axios' timer for the outbound call of c: it runs when the configured
\* timeout is positive and expires that many milliseconds after dispatch.
TimerExpired(c) ==
    /\ outbound[c][1].timeout > 0
    /\ now - startTime[c] >= outbound[c][1].timeout

\* The origin answered before the timer expired: the rest of the try block,
\* in one turn of the event loop.
OriginReply(c, reply) ==
    /\ pc[c] = "awaiting"
    /\ ~TimerExpired(c)
    /\ IF ~validateStatus(reply.status)
       THEN /\ axiosResult' = [axiosResult EXCEPT ![c] =
                                 Rejected(Err("ERR_BAD_RESPONSE", "Request failed"))]
            /\ Catch(c, Err("ERR_BAD_RESPONSE", "Request failed"))
            /\ UNCHANGED <<audit, auditDoc>>
       ELSE /\ axiosResult' = [axiosResult EXCEPT ![c] = Resolved(reply)]
            /\ LET responseTime == responseTimeMs(now, startTime[c])
                   doc == auditDocument(reqBody[c], reply, responseTime, now)
                   ok == Response(200, proxyResponse(reply, responseTime))
               IN  IF sinkGuard(db)
                   THEN /\ auditDoc' = [auditDoc EXCEPT ![c] = doc]
                        /\ \E o \in SubmitOutcomes(db, reply.data) :
                              /\ audit' = [audit EXCEPT ![c] = o]
                              /\ IF o = "threw"
                                 THEN Catch(c, SubmitError)
                                 ELSE /\ caught' = caught
                                      /\ IF awaitsAudit
                                         THEN /\ pc' = [pc EXCEPT ![c] = "awaitingAudit"]
                                              /\ UNCHANGED <<sent, startTime>>
                                         ELSE Finish(c, ok)
                   ELSE /\ Finish(c, ok)
                        /\ UNCHANGED <<audit, auditDoc, caught>>
    /\ UNCHANGED clientVars
    /\ UNCHANGED <<db, now, input, reqBody, outbound, logs>>

\* The transport failed before the timer expired.
OriginFailMutAudits(c, error) ==
    /\ pc[c] = "awaiting"
    /\ ~TimerExpired(c)
    /\ axiosResult' = [axiosResult EXCEPT ![c] = Rejected(error)]
    /\ Catch(c, error)
    /\ audit' = [audit EXCEPT ![c] = IF sinkGuard(db) THEN "pending" ELSE @]
    /\ auditDoc' = [auditDoc EXCEPT ![c] =
                      IF sinkGuard(db)
                      THEN auditDocument(reqBody[c], Reply(catchHandler(error).status, "", <<>>),
                                         responseTimeMs(now, startTime[c]), now)
                      ELSE @]
    /\ UNCHANGED clientVars
    /\ UNCHANGED <<db, now, input, reqBody, outbound, logs>>
OriginFail(c, error) ==
    /\ pc[c] = "awaiting"
    /\ ~TimerExpired(c)
    /\ axiosResult' = [axiosResult EXCEPT ![c] = Rejected(error)]
    /\ Catch(c, error)
    /\ UNCHANGED clientVars
    /\ UNCHANGED <<db, now, input, reqBody, outbound, audit, auditDoc, logs>>

\* No reply within `timeout`: axios rejects with ECONNABORTED.
OriginTimeout(c) ==
    /\ pc[c] = "awaiting"
    /\ TimerExpired(c)
    /\ axiosResult' = [axiosResult EXCEPT ![c] = Rejected(TimeoutError)]
    /\ Catch(c, TimeoutError)
    /\ UNCHANGED clientVars
    /\ UNCHANGED <<db, now, input, reqBody, outbound, audit, auditDoc, logs>>

\* The promise of add(..) settles: .then logs success (the document is in
\* the collection), .catch logs the error.
AuditSettle(c, stored) ==
    /\ audit[c] = "pending"
    /\ audit' = [audit EXCEPT ![c] = IF stored THEN "resolved" ELSE "rejected"]
    /\ logs' = IF stored THEN add(logs, [call |-> c, doc |-> auditDoc[c]]) ELSE logs
    /\ IF pc[c] = "awaitingAudit"
       THEN Finish(c, Response(200, proxyResponse(axiosResult[c].reply,
                                                  auditDoc[c].response_time_ms)))
       ELSE UNCHANGED <<pc, sent, startTime>>
    /\ UNCHANGED clientVars
    /\ UNCHANGED <<db, now, input, reqBody, outbound, axiosResult, caught, auditDoc>>

\* A call arrives early enough for its 30 s timer to expire while the clock
\* is followed.
InTime == now + TIMEOUT <= MaxNow

\* Time passes; a timer that has expired fires before more time passes.
Tick ==
    /\ now < MaxNow
    /\ \A c \in Calls : pc[c] = "awaiting" => ~TimerExpired(c)
    /\ now' = now + TickMs
    /\ UNCHANGED clientVars
    /\ UNCHANGED <<db, pc, input, reqBody, startTime, outbound, axiosResult, caught,
                   sent, audit, auditDoc, logs>>

\* Calls in flight together.
Next ==
    \/ \E c \in Calls : BodyParseFailure(c)
    \/ \E c \in Calls : \E body \in ConcurrentBodies : InTime /\ Receive(c, body)
    \/ \E c \in Calls : \E reply \in ConcurrentReplies : OriginReply(c, reply)
    \/ \E c \in Calls : \E error \in ConcurrentErrors : OriginFail(c, error)
    \/ \E c \in Calls : OriginTimeout(c)
    \/ \E c \in Calls : \E stored \in BOOLEAN : AuditSettle(c, stored)
    \/ Tick

Spec == Init /\ [][Next]_vars

\* The clock advances and an expired axios timer fires.
FairSpec == Spec /\ WF_vars(Tick) /\ \A c \in Calls : WF_vars(OriginTimeout(c))

\* One call alone, over every input, reply and transport error.
NextSolo ==
    \/ BodyParseFailure(1)
    \/ \E body \in RequestBodies : InTime /\ Receive(1, body)
    \/ \E reply \in OriginReplies : OriginReply(1, reply)
    \/ \E error \in TransportErrors : OriginFail(1, error)
    \/ OriginTimeout(1)
    \/ \E stored \in BOOLEAN : AuditSettle(1, stored)
    \/ Tick

SpecSolo == Init /\ [][NextSolo]_vars

\* Calls 1 and 2 in flight together, over requests that differ in user_id.
NextPair ==
    \/ \E c \in {1, 2} : \E body \in PairBodies : InTime /\ Receive(c, body)
    \/ \E c \in {1, 2} : \E reply \in PairReplies : OriginReply(c, reply)
    \/ \E c \in {1, 2} : \E error \in PairErrors : OriginFail(c, error)
    \/ \E c \in {1, 2} : OriginTimeout(c)
    \/ \E c \in {1, 2} : \E stored \in BOOLEAN : AuditSettle(c, stored)
    \/ Tick

SpecPair == Init /\ [][NextPair]_vars

\* One call alone, arriving at any time, over bodies of every shape.
NextShapes ==
    \/ \E body \in ShapedBodies : Receive(1, body)
    \/ \E reply \in PairReplies : OriginReply(1, reply)
    \/ \E error \in PairErrors : OriginFail(1, error)
    \/ OriginTimeout(1)
    \/ \E stored \in BOOLEAN : AuditSettle(1, stored)
    \/ Tick

SpecShapes == Init /\ [][NextShapes]_vars

\* ------------------------------------------- browser client: RequestBuilder
\* String.prototype.trim
trimString(s) == DropTrailingWS(DropLeadingWS(s))

\* What the user types into the URL field and the Basic Auth username field.
Zhe == "<U+0416>"
TypedUrls == {<<>>, <<" ", " ">>, UrlLocalPadded, UrlSpaces}
TypedUsernames == {<<"a", "n", "a">>, <<Zhe, "a", "n", "a">>}
AuthTypes == {"basic"}

\* The fields the user leaves at their useState defaults.
method == GET
bearerToken == <<>>
basicPassword == <<>>
\* The store's user once signed in (the sidebar lists nothing without one).
user == [uid |-> Str("user-1")]

\* pairsToObject over the default single empty pair: no key survives.
pairsToObject == "{}"

\* btoa: throws InvalidCharacterError on a code unit above 0xFF, otherwise
\* the Base64 text of the bytes.
btoaThrows(s) == \E i \in 1..Len(s) : s[i] = Zhe
btoa(s) ==
    CASE s = <<"a", "n", "a", ":">> -> "YW5hOg=="
      [] s = <<":">> -> "Og=="
      [] OTHER -> "?"
InvalidCharacterError ==
    [response |-> Undefined,
     message |-> "The string to be encoded contains invalid characters."]

\* The first statements of the try block: does building the headers throw?
buildThrows ==
    /\ authType = "basic"
    /\ trimString(basicUsername) # <<>>
    /\ btoaThrows(basicUsername \o <<":">> \o basicPassword)

\* headersObj after the auth branch.
headersObj(type, username) ==
    IF type = "bearer" /\ trimString(bearerToken) # <<>>
    THEN Obj("{\"Authorization\":\"Bearer\"}")
    ELSE IF type = "basic" /\ trimString(username) # <<>>
    THEN Obj("{\"Authorization\":\"Basic "
             \o btoa(username \o <<":">> \o basicPassword) \o "\"}")
    ELSE Obj(pairsToObject)

\* bodyData: null while the body type stays at its default "none".
bodyData == Null

\* The payload posted to the proxy.
payload(typedUrl, type, username) ==
    Req(method, trimString(typedUrl), headersObj(type, username), bodyData,
        Obj(pairsToObject), OrElse(user.uid, Null))

\* What comes back on the wire: the proxy's answers as the server produces
\* them, and the answer of a gateway in front of it; statusText is empty
\* over HTTP/2.
StatusTexts == {"", "reason"}
OriginRepliesSeen == {Reply(404, "Not Found", BodyText)}
HttpAnswer(response, statusText) ==
    [status |-> response.status,
     statusText |-> statusText,
     headers |-> Obj("{\"content-type\":\"application/json\"}"),
     data |-> response.body]
ProxyResponses(posted) ==
    IF proxyValidation(posted) # <<>>
    THEN {Response(400, [errors |-> proxyValidation(posted)])}
    ELSE {Response(200, proxyResponse(reply, TickMs)) : reply \in OriginRepliesSeen}
         \cup {catchHandler(TimeoutError)}
GatewayAnswer ==
    [status |-> 503, statusText |-> "", headers |-> Obj("{}"), data |-> Str("")]
AnswersTo(posted) ==
    {HttpAnswer(r, t) : r \in ProxyResponses(posted), t \in StatusTexts}
        \cup {GatewayAnswer}

\* The same, tabulated over every payload the fields can produce.
Payloads ==
    {NoPayload} \cup {payload(u, t, name) : u \in TypedUrls, t \in AuthTypes \cup {"none"},
                                            name \in TypedUsernames \cup {<<>>}}
HttpAnswers == [posted \in Payloads |-> AnswersTo(posted)]

\* axios' default validateStatus in the browser: 2xx resolves.
resolves(status) == status >= 200 /\ status < 300
HttpError(answer) ==
    [response |-> answer, message |-> "Request failed with status code"]
NetworkError == [response |-> Undefined, message |-> "Network Error"]

\* `x || fallback` on a response body.
dataOrElse(data, fallback) ==
    IF data \in {Undefined, Null, Str(""), Num("0"), Bool("false")} THEN fallback ELSE data

\* The object the catch block stores.
errorResponseMutNull(err) == Null
errorResponse(err) ==
    LET has == err.response # Undefined
    IN  [status |-> IF has /\ err.response.status # 0 THEN err.response.status ELSE 0,
         statusText |-> IF has /\ err.response.statusText # ""
                        THEN err.response.statusText ELSE "Network Error",
         headers |-> IF has THEN err.response.headers ELSE Obj("{}"),
         data |-> IF has THEN dataOrElse(err.response.data, [error |-> err.message])
                  ELSE [error |-> err.message],
         responseTime |-> 0,
         responseSize |-> 0]

\* onChange of the URL field, of the auth type select, of the username field.
SetUrl(typed) ==
    /\ urlInput # typed
    /\ urlInput' = typed
    /\ UNCHANGED <<authType, basicUsername, isLoading, activeResponse, runs, posts, shown>>
    /\ UNCHANGED <<serverVars, sidebarVars>>

SetAuthType(type) ==
    /\ authType # type
    /\ authType' = type
    /\ UNCHANGED <<urlInput, basicUsername, isLoading, activeResponse, runs, posts, shown>>
    /\ UNCHANGED <<serverVars, sidebarVars>>

SetBasicUsername(typed) ==
    /\ authType = "basic"
    /\ basicUsername # typed
    /\ basicUsername' = typed
    /\ UNCHANGED <<urlInput, authType, isLoading, activeResponse, runs, posts, shown>>
    /\ UNCHANGED <<serverVars, sidebarVars>>

\* handleSend up to `await axios.post(..)`: the early return on a blank url,
\* or the two store writes and then either the post or, when building the
\* headers throws, catch and finally in the same turn.
handleSend ==
    LET n == runs + 1
    IN  /\ runs < MaxSends
        /\ runs' = n
        /\ IF trimString(urlInput) = <<>>
           THEN /\ posts' = [posts EXCEPT ![n] = [pc |-> "returned", payload |-> NoPayload]]
                /\ UNCHANGED <<isLoading, activeResponse, shown>>
           ELSE /\ shown' = n
                /\ IF buildThrows
                   THEN /\ posts' = [posts EXCEPT ![n] = [pc |-> "threw", payload |-> NoPayload]]
                        /\ activeResponse' = errorResponse(InvalidCharacterError)
                        /\ isLoading' = FALSE
                   ELSE /\ posts' = [posts EXCEPT ![n] = [pc |-> "awaiting", payload |-> payload(urlInput, authType, basicUsername)]]
                        /\ activeResponse' = Null
                        /\ isLoading' = TRUE
        /\ UNCHANGED <<urlInput, authType, basicUsername>>
        /\ UNCHANGED <<serverVars, sidebarVars>>

\* The Send button: disabled while loading or while the url is blank.
ClickSend ==
    /\ ~(isLoading \/ trimString(urlInput) = <<>>)
    /\ handleSend

\* Enter in the URL field.
PressEnter == handleSend

\* The post of run n is answered: the rest of try on 2xx, catch otherwise,
\* then finally.
PostAnswered(n, answer) ==
    /\ posts[n].pc = "awaiting"
    /\ posts' = [posts EXCEPT ![n].pc = "settled"]
    /\ activeResponse' = IF resolves(answer.status) THEN answer.data
                         ELSE errorResponse(HttpError(answer))
    /\ isLoading' = FALSE
    /\ shown' = n
    /\ UNCHANGED <<urlInput, authType, basicUsername, runs>>
    /\ UNCHANGED <<serverVars, sidebarVars>>

\* The post of run n fails without a response.
PostFailed(n) ==
    /\ posts[n].pc = "awaiting"
    /\ posts' = [posts EXCEPT ![n].pc = "settled"]
    /\ activeResponse' = errorResponse(NetworkError)
    /\ isLoading' = FALSE
    /\ shown' = n
    /\ UNCHANGED <<urlInput, authType, basicUsername, runs>>
    /\ UNCHANGED <<serverVars, sidebarVars>>

\* The post of run n comes to an end, one way or the other.
PostSettles(n) ==
    \/ \E answer \in HttpAnswers[posts[n].payload] : PostAnswered(n, answer)
    \/ PostFailed(n)

NextBuilder ==
    \/ \E typed \in TypedUrls : SetUrl(typed)
    \/ \E type \in AuthTypes : SetAuthType(type)
    \/ \E typed \in TypedUsernames : SetBasicUsername(typed)
    \/ ClickSend
    \/ PressEnter
    \/ \E n \in Sends : \E answer \in HttpAnswers[posts[n].payload] : PostAnswered(n, answer)
    \/ \E n \in Sends : PostFailed(n)

\* The browser client alone, beside a proxy that has its sink.
InitBrowser == Init /\ db = Firestore
SpecBuilder == InitBrowser /\ [][NextBuilder]_vars

\* The proxy answers every call it receives and the browser reports a
\* connection that fails, so a post that is awaited comes to an end.
FairSpecBuilder == SpecBuilder /\ \A n \in Sends : WF_vars(PostSettles(n))

\* ------------------------------------------ browser client: CollectionSidebar
\* fetchRequests up to `await getDocs(q)`.
fetchRequests(started) == fetching' = fetching \cup started

\* getDocs of fetchRequests resolves: the cache entry is replaced.
FetchDone(c) ==
    /\ c \in fetching
    /\ fetching' = fetching \ {c}
    /\ requests' = [requests EXCEPT ![c] =
                      Loaded({r.id : r \in RequestsOf(requestsStore, c)})]
    /\ UNCHANGED <<collectionsStore, requestsStore, created, collections, expandedId,
                   confirmingDelete, savingTo, saving, removing, deleting>>
    /\ UNCHANGED <<serverVars, builderVars>>

\* getDocs of fetchRequests rejects: the error is logged.
FetchFailed(c) ==
    /\ c \in fetching
    /\ fetching' = fetching \ {c}
    /\ UNCHANGED <<collectionsStore, requestsStore, created, collections, requests,
                   expandedId, confirmingDelete, savingTo, saving, removing, deleting>>
    /\ UNCHANGED <<serverVars, builderVars>>

\* A click on a collection row.
toggleCollection(c) ==
    /\ c \in collections
    /\ IF expandedId = c
       THEN /\ expandedId' = "null"
            /\ UNCHANGED fetching
       ELSE /\ expandedId' = c
            /\ fetchRequests(IF requests[c].loaded THEN {} ELSE {c})
    /\ UNCHANGED <<collectionsStore, requestsStore, created, collections, requests,
                   confirmingDelete, savingTo, saving, removing, deleting>>
    /\ UNCHANGED <<serverVars, builderVars>>

\* The trash icon of a collection row, and "No" in the confirmation.
AskDelete(c) ==
    /\ c \in collections
    /\ confirmingDelete # c
    /\ confirmingDelete' = c
    /\ UNCHANGED <<collectionsStore, requestsStore, created, collections, requests,
                   expandedId, savingTo, fetching, saving, removing, deleting>>
    /\ UNCHANGED <<serverVars, builderVars>>

CancelDelete ==
    /\ confirmingDelete # "null"
    /\ confirmingDelete' = "null"
    /\ UNCHANGED <<collectionsStore, requestsStore, created, collections, requests,
                   expandedId, savingTo, fetching, saving, removing, deleting>>
    /\ UNCHANGED <<serverVars, builderVars>>

\* "Yes" in the confirmation: handleDeleteCollection up to `await getDocs(q)`.
\* The handler keeps the expandedId of the render it was created in.
handleDeleteCollection(c) ==
    /\ c \in collections
    /\ confirmingDelete = c
    /\ deleting[c].pc \in {"idle", "failed"}
    /\ deleting' = [deleting EXCEPT ![c] =
                      [pc |-> "listing", remaining |-> {}, removed |-> {},
                       expandedId |-> expandedId]]
    /\ UNCHANGED <<collectionsStore, requestsStore, created, collections, requests,
                   expandedId, confirmingDelete, savingTo, fetching, saving, removing>>
    /\ UNCHANGED <<serverVars, builderVars>>

\* getDocs resolves with the requests the collection has at that moment.
DeleteListed(c) ==
    /\ deleting[c].pc = "listing"
    /\ LET docs == {r.id : r \in RequestsOf(requestsStore, c)}
       IN  deleting' = [deleting EXCEPT ![c].remaining = docs,
                                        ![c].pc = IF docs = {} THEN "collection"
                                                  ELSE "requests"]
    /\ UNCHANGED <<collectionsStore, requestsStore, created, collections, requests,
                   expandedId, confirmingDelete, savingTo, fetching, saving, removing>>
    /\ UNCHANGED <<serverVars, builderVars>>

\* One turn of the for loop: deleteDoc of a listed request resolves.
DeleteListedRequest(c, id) ==
    /\ deleting[c].pc = "requests"
    /\ id \in deleting[c].remaining
    /\ requestsStore' = {r \in requestsStore : r.id # id}
    /\ deleting' = [deleting EXCEPT ![c].remaining = @ \ {id},
                                    ![c].removed = @ \cup {id},
                                    ![c].pc = IF deleting[c].remaining = {id}
                                              THEN "collection" ELSE "requests"]
    /\ UNCHANGED <<collectionsStore, created, collections, requests, expandedId,
                   confirmingDelete, savingTo, fetching, saving, removing>>
    /\ UNCHANGED <<serverVars, builderVars>>

\* deleteDoc of the collection resolves: the local state follows.
DeleteCollectionDone(c) ==
    /\ deleting[c].pc = "collection"
    /\ collectionsStore' = collectionsStore \ {c}
    /\ collections' = collections \ {c}
    /\ requests' = [requests EXCEPT ![c] = NotLoaded]
    /\ expandedId' = IF deleting[c].expandedId = c THEN "null" ELSE expandedId
    /\ confirmingDelete' = "null"
    /\ deleting' = [deleting EXCEPT ![c].pc = "done"]
    /\ UNCHANGED <<requestsStore, created, savingTo, fetching, saving, removing>>
    /\ UNCHANGED <<serverVars, builderVars>>

\* Any of the awaited calls of handleDeleteCollection rejects: the error is
\* logged and the handler returns.
DeleteCollectionFailed(c) ==
    /\ deleting[c].pc \in {"listing", "requests", "collection"}
    /\ deleting' = [deleting EXCEPT ![c].pc = "failed"]
    /\ UNCHANGED <<collectionsStore, requestsStore, created, collections, requests,
                   expandedId, confirmingDelete, savingTo, fetching, saving, removing>>
    /\ UNCHANGED <<serverVars, builderVars>>

\* The "+" icon of a collection row.
ToggleSaveForm(c) ==
    /\ c \in collections
    /\ savingTo' = IF savingTo = c THEN "null" ELSE c
    /\ UNCHANGED <<collectionsStore, requestsStore, created, collections, requests,
                   expandedId, confirmingDelete, fetching, saving, removing, deleting>>
    /\ UNCHANGED <<serverVars, builderVars>>

\* Submit of the save form: handleSaveRequest up to `await addDoc(..)`.
handleSaveRequest(c, requestName) ==
    /\ c \in collections
    /\ savingTo = c
    /\ c \notin saving
    /\ created < MaxRequests
    /\ saving' = IF trimString(requestName) = <<>> \/ ~ToBoolean(user.uid)
                 THEN saving ELSE saving \cup {c}
    /\ UNCHANGED <<collectionsStore, requestsStore, created, collections, requests,
                   expandedId, confirmingDelete, savingTo, fetching, removing, deleting>>
    /\ UNCHANGED <<serverVars, builderVars>>

\* addDoc resolves: the document is in "requests", the form closes and the
\* collection's requests are fetched again.
SaveDone(c) ==
    /\ c \in saving
    /\ saving' = saving \ {c}
    /\ created' = created + 1
    /\ requestsStore' = requestsStore \cup {RequestDoc(created + 1, c)}
    /\ savingTo' = "null"
    /\ fetchRequests({c})
    /\ UNCHANGED <<collectionsStore, collections, requests, expandedId,
                   confirmingDelete, removing, deleting>>
    /\ UNCHANGED <<serverVars, builderVars>>

SaveFailed(c) ==
    /\ c \in saving
    /\ saving' = saving \ {c}
    /\ UNCHANGED <<collectionsStore, requestsStore, created, collections, requests,
                   expandedId, confirmingDelete, savingTo, fetching, removing, deleting>>
    /\ UNCHANGED <<serverVars, builderVars>>

\* The delete icon of a listed request: handleDeleteRequest up to
\* `await deleteDoc(..)`.
handleDeleteRequest(id, c) ==
    /\ c \in collections
    /\ expandedId = c
    /\ requests[c].loaded
    /\ id \in requests[c].ids
    /\ RequestDoc(id, c) \notin removing
    /\ removing' = removing \cup {RequestDoc(id, c)}
    /\ UNCHANGED <<collectionsStore, requestsStore, created, collections, requests,
                   expandedId, confirmingDelete, savingTo, fetching, saving, deleting>>
    /\ UNCHANGED <<serverVars, builderVars>>

\* deleteDoc resolves: the request leaves the store and the cache entry.
RemoveDone(id, c) ==
    /\ RequestDoc(id, c) \in removing
    /\ removing' = removing \ {RequestDoc(id, c)}
    /\ requestsStore' = {r \in requestsStore : r.id # id}
    /\ requests' = [requests EXCEPT ![c] = Loaded(requests[c].ids \ {id})]
    /\ UNCHANGED <<collectionsStore, created, collections, expandedId,
                   confirmingDelete, savingTo, fetching, saving, deleting>>
    /\ UNCHANGED <<serverVars, builderVars>>

RemoveFailed(id, c) ==
    /\ RequestDoc(id, c) \in removing
    /\ removing' = removing \ {RequestDoc(id, c)}
    /\ UNCHANGED <<collectionsStore, requestsStore, created, collections, requests,
                   expandedId, confirmingDelete, savingTo, fetching, saving, deleting>>
    /\ UNCHANGED <<serverVars, builderVars>>

NextSidebar ==
    \/ \E c \in CollectionIds : toggleCollection(c)
    \/ \E c \in CollectionIds : FetchDone(c)
    \/ \E c \in CollectionIds : FetchFailed(c)
    \/ \E c \in CollectionIds : AskDelete(c)
    \/ CancelDelete
    \/ \E c \in CollectionIds : handleDeleteCollection(c)
    \/ \E c \in CollectionIds : DeleteListed(c)
    \/ \E c \in CollectionIds : \E id \in RequestIds : DeleteListedRequest(c, id)
    \/ \E c \in CollectionIds : DeleteCollectionDone(c)
    \/ \E c \in CollectionIds : DeleteCollectionFailed(c)
    \/ \E c \in CollectionIds : ToggleSaveForm(c)
    \/ \E c \in CollectionIds : \E requestName \in TypedNames : handleSaveRequest(c, requestName)
    \/ \E c \in CollectionIds : SaveDone(c)
    \/ \E c \in CollectionIds : SaveFailed(c)
    \/ \E c \in CollectionIds : \E id \in RequestIds : handleDeleteRequest(id, c)
    \/ \E c \in CollectionIds : \E id \in RequestIds : RemoveDone(id, c)
    \/ \E c \in CollectionIds : \E id \in RequestIds : RemoveFailed(id, c)

\* The sidebar alone.
SpecSidebar == InitBrowser /\ [][NextSidebar]_vars

\* -------------------------------------------------------------- claims
\* A call whose body reached the route (express.json() parsed it).
Entered(c) == pc[c] # "idle" /\ input[c].parsed
\* The one response of a call that has exactly one.
Only(c) == sent[c][1]
AnsweredWith(c, status) == Len(sent[c]) = 1 /\ Only(c).status = status
MethodIn(c) == trim(input[c].body.method)
UrlIn(c) == trim(input[c].body.url)
GotReply(c) == pc[c] = "done" /\ axiosResult[c].kind = "reply"
\* The success envelope for the reply call c received, whatever the
\* measured time.
IsSuccessFor(c, response) ==
    /\ response.status = 200
    /\ [response.body EXCEPT !.responseTime = 0] = proxyResponse(axiosResult[c].reply, 0)

\* C1: a call whose input lacks method, lacks url, has a method outside the
\* five verbs or a url that fails validation is answered with outer 400 and
\* makes no outbound network call.
C1_InvalidInput400NoOutbound ==
    \A c \in Calls :
        ( /\ Entered(c)
          /\ \/ input[c].body.method = NoString
             \/ input[c].body.url = NoString
             \/ MethodIn(c) \notin Verbs
             \/ ~isURL(UrlIn(c)) )
        => /\ pc[c] = "done"
           /\ AnsweredWith(c, 400)
           /\ outbound[c] = <<>>

\* C1 witness: a call with a valid method and a url that does not validate
\* was rejected without an outbound call.
C1_Witness ==
    \E c \in Calls :
        /\ Entered(c) /\ MethodIn(c) \in Verbs /\ input[c].body.url = UrlBadPort
        /\ AnsweredWith(c, 400) /\ outbound[c] = <<>>

\* C2 (as stated): every call to which the origin replied with status s is
\* answered with outer 200 and a body whose status is s, never with an outer
\* 502, 504 or 500.
C2_OriginStatusPassedThrough ==
    \A c \in Calls :
        GotReply(c) =>
            /\ AnsweredWith(c, 200)
            /\ Only(c).body.status = axiosResult[c].reply.status

\* C3 (as stated): whatever the audit write does (accepted then stored,
\* rejected later, or failing when it is submitted), the caller receives the
\* success envelope of its reply and the failure is not seen by the route's
\* error path.
C3_AuditIsolation ==
    \A c \in Calls :
        (pc[c] = "done" /\ audit[c] # "none") =>
            /\ caught[c] = NoError
            /\ Len(sent[c]) = 1
            /\ IsSuccessFor(c, Only(c))

\* The five envelopes of the route.
IsEnvelope(r) ==
    \/ /\ r.status = 200
       /\ DOMAIN r.body = {"status", "statusText", "headers", "data", "responseTime", "responseSize"}
    \/ /\ r.status = 400
       /\ DOMAIN r.body = {"errors"}
       /\ r.body.errors # <<>>
    \/ /\ r.status = 502
       /\ DOMAIN r.body = {"error", "message"}
       /\ r.body.error = "Bad Gateway"
    \/ /\ r.status = 504
       /\ DOMAIN r.body = {"error", "message"}
       /\ r.body.error = "Gateway Timeout"
    \/ /\ r.status = 500
       /\ DOMAIN r.body = {"error", "message"}
       /\ r.body.error = "Internal Server Error"

\* C4: every inbound call eventually receives exactly one response, and it
\* is one of the defined envelopes (200, 400, 502, 504, 500): none is left
\* unanswered, none is answered twice.
C4_ExactlyOneDefinedResponse ==
    /\ [](\A c \in Calls :
            /\ Len(sent[c]) <= 1
            /\ pc[c] = "done" => Len(sent[c]) = 1
            /\ \A i \in 1..Len(sent[c]) : IsEnvelope(sent[c][i]))
    /\ \A c \in Calls : (pc[c] # "idle") ~> (pc[c] = "done" /\ Len(sent[c]) = 1)

\* C4 witness: a call that waited for its timer and was then answered, and
\* another answered from the origin's reply.
C4_Witness ==
    \E c, d \in Calls :
        /\ pc[c] = "done" /\ axiosResult[c].error = TimeoutError /\ Len(sent[c]) = 1
        /\ GotReply(d) /\ Len(sent[d]) = 1

\* C5: when the origin does not reply within 30 s the call ends with outer
\* 504 {error: "Gateway Timeout", message}, the message being the route's own
\* text and not the exception's; no call is still waiting, and no reply is
\* accepted, once the bound has passed.
C5_TimeoutGives504 ==
    \A c \in Calls :
        /\ (pc[c] = "done" /\ axiosResult[c].error = TimeoutError) =>
              /\ Len(sent[c]) = 1
              /\ Only(c) = Response(504,
                    [error |-> "Gateway Timeout",
                     message |-> <<"The external API did not respond within 30 seconds.">>])
              /\ ~Contains(Only(c).body.message, TimeoutError.message)
        /\ pc[c] = "awaiting" => now - startTime[c] < TIMEOUT + TickMs
        /\ (GotReply(c) /\ AnsweredWith(c, 200)) => Only(c).body.responseTime < TIMEOUT

\* C5 witness: a call whose timer expired has been answered.
C5_Witness ==
    \E c \in Calls :
        pc[c] = "done" /\ axiosResult[c].error = TimeoutError /\ now >= TIMEOUT

\* C6: a DNS-resolution failure (ENOTFOUND) or a refused connection
\* (ECONNREFUSED) ends the call with outer 502 {error: "Bad Gateway",
\* message}, the message containing the transport error's text.
C6_UnreachableGives502 ==
    \A c \in Calls :
        ( /\ pc[c] = "done"
          /\ axiosResult[c].kind = "error"
          /\ axiosResult[c].error.code \in {"ENOTFOUND", "ECONNREFUSED"} )
        => /\ AnsweredWith(c, 502)
           /\ DOMAIN Only(c).body = {"error", "message"}
           /\ Only(c).body.error = "Bad Gateway"
           /\ Contains(Only(c).body.message, axiosResult[c].error.message)

\* C6 witness: a call to an unresolvable host failed on DNS and was answered.
C6_Witness ==
    \E c \in Calls :
        /\ pc[c] = "done" /\ axiosResult[c].error.code = "ENOTFOUND"
        /\ reqBody[c].url = UrlUnresolvable /\ AnsweredWith(c, 502)

\* C7: a failure in the forwarding path that is neither a timeout nor a
\* DNS/connection-refused failure ends the call with outer 500
\* {error: "Internal Server Error", message}, never with 502, 504 or 200.
C7_OtherFailureGives500 ==
    \A c \in Calls :
        ( /\ pc[c] = "done"
          /\ caught[c] # NoError
          /\ caught[c].code \notin {"ECONNABORTED", "ENOTFOUND", "ECONNREFUSED"} )
        => /\ AnsweredWith(c, 500)
           /\ DOMAIN Only(c).body = {"error", "message"}
           /\ Only(c).body.error = "Internal Server Error"
           /\ Only(c).body.message =
                 <<IF caught[c].message # "" THEN caught[c].message
                   ELSE "Something went wrong on the proxy server.">>

\* C7 witness: a transport error that carries no message was answered with
\* the handler's default text.
C7_Witness ==
    \E c \in Calls :
        /\ pc[c] = "done" /\ caught[c].code = "ETIMEDOUT" /\ caught[c].message = ""
        /\ AnsweredWith(c, 500)

\* C8: within a call the response is sent before the audit write settles:
\* while the write is pending the outer 200 is already out, and the write's
\* success or failure callback runs only after it.
C8_ResponseBeforeAuditSettles ==
    /\ [](\A c \in Calls :
            audit[c] \in {"pending", "resolved", "rejected"} =>
                pc[c] = "done" /\ AnsweredWith(c, 200))
    /\ [][\A c \in Calls :
            (audit[c] = "pending" /\ audit'[c] # "pending") =>
                (AnsweredWith(c, 200) /\ sent'[c] = sent[c])]_vars

\* C8 witness: a write settled as rejected after its call was answered.
C8_Witness ==
    \E c \in Calls : audit[c] = "rejected" /\ AnsweredWith(c, 200)

C10_MethodCaseInsensitive ==
    \A c \in Calls :
        (Entered(c) /\ toUpperCase(MethodIn(c)) \in Verbs /\ isURL(UrlIn(c)))
        => /\ ~AnsweredWith(c, 400)
           /\ Len(outbound[c]) = 1

\* C10 (amended): the method is matched case-sensitively after trimming.
\* A method that is one of the five verbs is forwarded (lowercased for the
\* transport) and is written in that same uppercase form in the audit
\* record; a method that equals a verb only after uppercasing is answered
\* with outer 400, names the method field, and is not forwarded.
C10_MethodCaseSensitive ==
    \A c \in Calls :
        (Entered(c) /\ isURL(UrlIn(c))) =>
            /\ MethodIn(c) \in Verbs =>
                  /\ ~AnsweredWith(c, 400)
                  /\ Len(outbound[c]) = 1
                  /\ outbound[c][1].method = toLowerCase(MethodIn(c))
                  /\ audit[c] # "none" => auditDoc[c].method = MethodIn(c)
            /\ (toUpperCase(MethodIn(c)) \in Verbs /\ MethodIn(c) \notin Verbs) =>
                  /\ AnsweredWith(c, 400)
                  /\ outbound[c] = <<>>
                  /\ \A i \in 1..Len(Only(c).body.errors) :
                        /\ Only(c).body.errors[i].path = "method"
                        /\ Only(c).body.errors[i].value = MethodIn(c)

\* C10 witness: "Post", sent with a valid url, was rejected.
C10_Witness ==
    \E c \in Calls :
        /\ Entered(c) /\ input[c].body.method = MixedPost /\ isURL(UrlIn(c))
        /\ AnsweredWith(c, 400)

\* The scheme of a url (the piece before "://") and its host (after the
\* scheme, up to the first "/" or ":").
SchemeOf(u) == IF Contains(u, "://") THEN SubSeq(u, 1, IndexOf(u, "://") - 1) ELSE <<>>
AfterScheme(u) == IF Contains(u, "://") THEN SubSeq(u, IndexOf(u, "://") + 1, Len(u)) ELSE u
HostOf(u) == Split(Split(AfterScheme(u), "/")[1], ":")[1]
PortOf(u) == Tail(Split(Split(AfterScheme(u), "/")[1], ":"))

\* C11 (as stated): a call whose url has no scheme or no host is answered
\* with outer 400 and makes no outbound network call.
C11_NoSchemeOrNoHostRejected ==
    \A c \in Calls :
        (Entered(c) /\ (SchemeOf(UrlIn(c)) = <<>> \/ HostOf(UrlIn(c)) = <<>>))
        => /\ AnsweredWith(c, 400)
           /\ outbound[c] = <<>>

\* C12: a url with a valid scheme whose host is a single label (no TLD),
\* with or without a port, sent with a valid method, passes validation and
\* is forwarded: one outbound call, to that url.
C12_NoTldHostForwarded ==
    \A c \in Calls :
        ( /\ Entered(c)
          /\ MethodIn(c) \in Verbs
          /\ SchemeOf(UrlIn(c)) \in {<<"http">>, <<"https">>}
          /\ HostOf(UrlIn(c)) = <<"localhost">>
          /\ PortOf(UrlIn(c)) \in {<<>>, <<<<"5000">>>>} )
        => /\ ~AnsweredWith(c, 400)
           /\ Len(outbound[c]) = 1
           /\ outbound[c][1].url = UrlIn(c)

\* C12 witness: http://localhost:5000 and http://localhost were forwarded.
C12_Witness ==
    /\ Entered(1) /\ MethodIn(1) \in Verbs
    /\ input[1].body.url \in {UrlLocal, UrlLocalNoPort, UrlLocalPadded}
    /\ Len(outbound[1]) = 1
    /\ outbound[1][1].url \in {UrlLocal, UrlLocalNoPort}

\* The reply a call received and the data field of the envelope it was
\* answered with.
RawOf(c) == axiosResult[c].reply.data
DataOf(c) == Only(c).body.data
\* The documents the JSON bodies spell, and the texts of the bodies that are
\* not JSON, written out by hand.
JSONBodies ==
    (BodyAna :> Obj("{\"id\":1,\"name\":\"Ana\"}")) @@ (BodyEmptyObject :> Obj("{}"))
    @@ (BodySpaced :> Obj("{\"id\":1}")) @@ (BodyList :> Obj("[1,[true,null],{\"id\":1}]"))
    @@ (BodyQuoted :> Str("Ana")) @@ (BodyNumber :> Num("1")) @@ (BodyNull :> Null)
    @@ (Nested(MAX_DEPTH + 1) :> Obj("[[[[[[[[[[[[[[[[[[[[[]]]]]]]]]]]]]]]]]]]]]"))
    @@ (Nested(MAX_DEPTH + 2) :> Obj("[[[[[[[[[[[[[[[[[[[[[[]]]]]]]]]]]]]]]]]]]]]]"))
TextBodies ==
    (BodyText :> "not json at all") @@ (BodyAccent :> "caf<U+00E9>")
    @@ (BodyTruncated :> "{\"id\":") @@ (BodyTrailing :> "{} x") @@ (BodyNone :> "")

\* C13: in the envelope of a call answered from an origin reply, data is the
\* parsed document when the raw body is JSON text (whatever blanks it had),
\* and the raw text itself, unchanged, when it is not.
C13_DataRoundTrip ==
    \A c \in Calls :
        (GotReply(c) /\ AnsweredWith(c, 200)) =>
            /\ RawOf(c) \in DOMAIN JSONBodies \cup DOMAIN TextBodies
            /\ RawOf(c) \in DOMAIN JSONBodies => DataOf(c) = JSONBodies[RawOf(c)]
            /\ RawOf(c) \in DOMAIN TextBodies => DataOf(c) = Str(TextBodies[RawOf(c)])

\* C13 witness: a JSON body with blanks came back as its document.
C13_Witness ==
    \E c \in Calls :
        /\ GotReply(c) /\ AnsweredWith(c, 200)
        /\ RawOf(c) = BodySpaced /\ DataOf(c) = Obj("{\"id\":1}")

\* The number of bytes of each body as the origin sent it, counted by hand.
BytesSent ==
    (BodyAna :> 21) @@ (BodyEmptyObject :> 2) @@ (BodySpaced :> 13) @@ (BodyList :> 24)
    @@ (BodyQuoted :> 5) @@ (BodyNumber :> 1) @@ (BodyNull :> 4)
    @@ (Nested(MAX_DEPTH + 1) :> 42) @@ (Nested(MAX_DEPTH + 2) :> 44)
    @@ (BodyText :> 15) @@ (BodyAccent :> 5) @@ (BodyTruncated :> 6)
    @@ (BodyTrailing :> 4) @@ (BodyNone :> 0)

\* C14: responseSize in the envelope is the number of bytes of the raw body
\* as received ({} gives 2, {"id":1,"name":"Ana"} gives 21), whether or not
\* the body parsed and whatever the parsed data looks like.
C14_SizeOfRawBody ==
    \A c \in Calls :
        (GotReply(c) /\ AnsweredWith(c, 200)) =>
            /\ RawOf(c) \in DOMAIN BytesSent
            /\ Only(c).body.responseSize = BytesSent[RawOf(c)]

\* C14 witness: a body whose parsed document is shorter than its text was
\* measured by its text.
C14_Witness ==
    \E c \in Calls :
        /\ GotReply(c) /\ AnsweredWith(c, 200)
        /\ RawOf(c) = BodySpaced /\ DataOf(c) = Obj("{\"id\":1}")
        /\ Only(c).body.responseSize = 13

\* Two calls that were the same validated request and received the same
\* reply from the origin.
SameRun(c, d) ==
    /\ c # d
    /\ GotReply(c) /\ GotReply(d)
    /\ reqBody[c] = reqBody[d]
    /\ axiosResult[c].reply = axiosResult[d].reply

SameButUser(c, d) ==
    /\ c # d
    /\ pc[c] = "done" /\ pc[d] = "done"
    /\ input[c].parsed /\ input[d].parsed
    /\ [input[c].body EXCEPT !.user_id = Undefined] = [input[d].body EXCEPT !.user_id = Undefined]
    /\ axiosResult[c] = axiosResult[d]
\* A response without its measured time.
Timeless(r) ==
    IF r.status = 200 THEN [r EXCEPT !.body.responseTime = 0] ELSE r
\* user_id does not decide anything: the same outbound call, the same outer
\* status and body.
UserIdIgnored ==
    \A c, d \in Calls :
        SameButUser(c, d) =>
            /\ outbound[c] = outbound[d]
            /\ Len(sent[c]) = 1 /\ Len(sent[d]) = 1
            /\ Timeless(Only(c)) = Timeless(Only(d))

\* C16 (as stated): two calls that differ only in user_id make the same
\* outbound call and get the same outer status and body, and the audit
\* record carries the supplied user_id, or null when none was supplied.
C16_UserIdSuppliedOrNull ==
    /\ UserIdIgnored
    /\ \A c \in Calls :
          audit[c] # "none" =>
              auditDoc[c].user_id = IF input[c].body.user_id = Undefined THEN Null
                                    ELSE input[c].body.user_id

\* C16 (amended): two calls that differ only in user_id make the same
\* outbound call and get the same outer status and body; the audit record
\* carries the supplied user_id when it is truthy, and null when it is
\* absent, null or falsy (the empty string).
C16_UserIdTruthyOrNull ==
    /\ UserIdIgnored
    /\ \A c \in Calls :
          audit[c] # "none" =>
              auditDoc[c].user_id = IF ToBoolean(input[c].body.user_id)
                                    THEN input[c].body.user_id ELSE Null

\* C16 witness: two calls with different user_id got the same reply and the
\* same envelope, and the empty user_id was recorded as null.
C16_Witness ==
    /\ SameButUser(1, 2)
    /\ input[1].body.user_id = Str("user-1") /\ input[2].body.user_id = Str("")
    /\ Only(1).status = 200 /\ Only(2).status = 200
    /\ audit[1] # "none" /\ auditDoc[1].user_id = Str("user-1")
    /\ audit[2] # "none" /\ auditDoc[2].user_id = Null

\* Everything the handler's run for call c holds.
Local(c) ==
    <<pc[c], input[c], reqBody[c], startTime[c], outbound[c], axiosResult[c],
      caught[c], sent[c], audit[c], auditDoc[c]>>
\* The answer call c gets when it is the only call the server ever serves,
\* from its own request and the outcome of its own outbound call.
AloneAnswer(c) ==
    IF proxyValidation(input[c].body) # <<>>
    THEN Response(400, [errors |-> proxyValidation(input[c].body)])
    ELSE IF axiosResult[c].kind = "error" THEN catchHandler(axiosResult[c].error)
    ELSE IF sinkGuard(db) /\ "threw" \in SubmitOutcomes(db, RawOf(c))
    THEN catchHandler(SubmitError)
    ELSE Response(200, proxyResponse(axiosResult[c].reply, 0))

\* C17: calls in flight together do not touch one another: a step changes
\* what at most one call holds, no step changes the sink handle, and every
\* finished call has exactly the answer it gets alone from its own request
\* and its own origin outcome (the measured time apart).
C17_CallsIndependent ==
    /\ [][db' = db /\ \A c, d \in Calls :
                         (c # d /\ Local(c)' # Local(c)) => Local(d)' = Local(d)]_vars
    /\ [](\A c \in Calls :
             (pc[c] = "done" /\ input[c].parsed) =>
                 /\ Len(sent[c]) = 1
                 /\ Timeless(Only(c)) = AloneAnswer(c))

\* C17 witness: call 1 was answered from a reply while call 2 was still
\* waiting for its origin, which then timed out.
C17_Witness ==
    /\ pc[1] = "done" /\ Only(1).status = 200 /\ Only(1).body.responseTime = TickMs
    /\ pc[2] = "done" /\ Only(2).status = 504

\* C18 (as stated): with the sink available, an audit record is handed to
\* the sink for every finished call that was answered from an origin reply
\* or with the 504 or 502 synthesized for a transport failure.
C18_EveryResultAudited ==
    \A c \in Calls :
        ( /\ db = Firestore
          /\ pc[c] = "done"
          /\ GotReply(c) \/ AnsweredWith(c, 504) \/ AnsweredWith(c, 502) )
        => audit[c] # "none"

\* C19: the audit log only grows, by one record at a time; a call hands at
\* most one document to the sink and never another one afterwards, a write
\* that failed stays failed, and every stored record is the document of the
\* call that wrote it, at most one per call.
C19_AppendOnly ==
    /\ [][/\ logs \subseteq logs'
          /\ Cardinality(logs') <= Cardinality(logs) + 1
          /\ \A c \in Calls :
                /\ audit[c] # "none" => auditDoc'[c] = auditDoc[c]
                /\ audit[c] # "none" => audit'[c] # "none"
                /\ (audit'[c] \in {"pending", "threw"} /\ audit'[c] # audit[c])
                      => audit[c] = "none"
                /\ audit[c] \in {"rejected", "threw", "resolved"} => audit'[c] = audit[c]]_vars
    /\ [](\A c \in Calls :
             /\ Cardinality({r \in logs : r.call = c}) <= 1
             /\ \A r \in logs : r.call = c => (r.doc = auditDoc[c] /\ audit[c] = "resolved"))

\* C19 witness: one call's write failed and was left at that, the other
\* call's record is the only one stored.
C19_Witness ==
    /\ audit[1] = "rejected" /\ audit[2] = "resolved"
    /\ logs = {[call |-> 2, doc |-> auditDoc[2]]}

C21_OutboundAsSupplied ==
    \A c \in Calls :
        (Entered(c) /\ outbound[c] # <<>>) =>
            /\ Len(outbound[c]) = 1
            /\ DOMAIN outbound[c][1] = {"method", "url", "headers", "params", "data", "timeout"}
            /\ outbound[c][1].method = toLowerCase(MethodIn(c))
            /\ MethodIn(c) = GET => outbound[c][1].method = LowerGet
            /\ outbound[c][1].url = UrlIn(c)
            /\ outbound[c][1].headers = IF input[c].body.headers = Undefined THEN Obj("{}")
                                        ELSE input[c].body.headers
            /\ outbound[c][1].params = input[c].body.params
            /\ outbound[c][1].data = input[c].body.body

\* C21 witness: a GET with a body that is not JSON and without headers was
\* forwarded with that body and an empty header map.
C21_Witness ==
    \E c \in Calls :
        /\ Entered(c) /\ MethodIn(c) = GET
        /\ input[c].body.headers = Undefined /\ input[c].body.body = Str("{not json")
        /\ Len(outbound[c]) = 1
        /\ outbound[c][1].headers = Obj("{}") /\ outbound[c][1].data = Str("{not json")

\* C22: whether a call is answered with outer 400 is decided by its method
\* and url alone: with a method and url that pass, no value of headers,
\* params, body and user_id (absent, null, of any shape) gets a 400; with a
\* method or url that fails, every one gets a 400, with the errors the same
\* method and url get when nothing else is sent.
C22_VerdictByMethodAndUrl ==
    \A c \in Calls :
        Entered(c) =>
            IF MethodIn(c) \in Verbs /\ isURL(UrlIn(c))
            THEN ~AnsweredWith(c, 400) /\ Len(outbound[c]) = 1
            ELSE /\ AnsweredWith(c, 400)
                 /\ outbound[c] = <<>>
                 /\ Only(c).body.errors
                      = proxyValidation(Bare(input[c].body.method, input[c].body.url))

\* C22 witness: a valid method and url sent with null headers, a falsy body
\* and null params was forwarded.
C22_Witness ==
    \E c \in Calls :
        /\ Entered(c) /\ MethodIn(c) = GET /\ UrlIn(c) = UrlLocal
        /\ input[c].body.headers = Null /\ input[c].body.body = Bool("false")
        /\ input[c].body.params = Null
        /\ Len(outbound[c]) = 1 /\ ~AnsweredWith(c, 400)

\* The bodies that are a JSON object or array, and the value every body
\* stands for (its document, or its text).
StructuredBodies == {BodyAna, BodyEmptyObject, BodySpaced, BodyList, Nested(MAX_DEPTH + 1)}
ValueSent(raw) == IF raw \in DOMAIN JSONBodies THEN JSONBodies[raw] ELSE Str(TextBodies[raw])

\* C23 (as stated): the response_body of a submitted audit record is the
\* parsed data when the origin body is a JSON object or array, and the
\* wrapper {raw: data} for every other body: text that is not JSON and JSON
\* numbers, strings, booleans and null.
C23_ResponseBodyStructuredOrWrapped ==
    \A c \in Calls :
        audit[c] \in {"pending", "resolved", "rejected"} =>
            /\ auditDoc[c].response_body.t = "object"
            /\ auditDoc[c].response_body
                 = IF RawOf(c) \in StructuredBodies THEN ValueSent(RawOf(c))
                   ELSE Obj("{\"raw\":" \o Render(ValueSent(RawOf(c))) \o "}")

\* C24 (as stated): the request_body of a submitted audit record is the
\* body the caller supplied, whatever its JSON value (0, false and the empty
\* string included), and null only when no body or a null body was supplied.
C24_RequestBodyAsSupplied ==
    \A c \in Calls :
        audit[c] \in {"pending", "resolved", "rejected"} =>
            auditDoc[c].request_body
              = IF input[c].body.body \in {Undefined, Null} THEN Null ELSE input[c].body.body

\* C25: responseTime is the clock when the reply is received minus the
\* clock when the outbound call was dispatched, a natural number of
\* milliseconds: startTime is read at the dispatch and kept while the call
\* waits, and the time in the envelope does not change with what happens
\* after the reply (the audit write settling, the clock going on).
C25_ResponseTimeIsCallDuration ==
    [][\A c \in Calls :
          /\ (pc[c] = "idle" /\ pc'[c] = "awaiting") => startTime'[c] = now
          /\ (pc[c] = "awaiting" /\ pc'[c] = "awaiting") => startTime'[c] = startTime[c]
          /\ (pc[c] = "awaiting" /\ pc'[c] = "done" /\ sent'[c][1].status = 200) =>
                /\ sent'[c][1].body.responseTime = now - startTime[c]
                /\ sent'[c][1].body.responseTime \in Nat
          /\ pc[c] = "done" => sent'[c] = sent[c]]_vars

\* C25 witness: a call dispatched one tick after the start and answered a
\* tick later measured one tick, and its audit write has settled since.
C25_Witness ==
    \E c \in Calls :
        /\ GotReply(c) /\ AnsweredWith(c, 200)
        /\ Only(c).body.responseTime = TickMs
        /\ audit[c] = "resolved" /\ auditDoc[c].timestamp = 2 * TickMs

\* The urls followed that validation refuses, after trimming.
RefusedUrls == {<<>>, UrlSpaces, UrlNoHost, UrlBadPort, UrlBadProtocol}

\* C26: the body of an outer 400 is a non-empty list of field errors: at
\* least one for method exactly when the method failed, at least one for url
\* exactly when the url failed (both when both failed), each naming its field
\* and carrying the value that was refused.
C26_FieldErrors ==
    \A c \in Calls :
        (Entered(c) /\ AnsweredWith(c, 400)) =>
            LET errors == Only(c).body.errors
                about(path) == {i \in 1..Len(errors) : errors[i].path = path}
            IN  /\ DOMAIN Only(c).body = {"errors"}
                /\ errors # <<>>
                /\ about("method") # {} <=> MethodIn(c) \notin Verbs
                /\ about("url") # {} <=> UrlIn(c) \in RefusedUrls
                /\ \A i \in 1..Len(errors) :
                      /\ errors[i].path \in {"method", "url"}
                      /\ errors[i].value = IF errors[i].path = "method" THEN MethodIn(c)
                                           ELSE UrlIn(c)
                      /\ errors[i].msg \in {MsgMethodRequired, MsgMethodOneOf,
                                            MsgUrlRequired, MsgUrlValid}

\* C26 witness: a method outside the verbs and a url with blanks were
\* reported together.
C26_Witness ==
    \E c \in Calls :
        /\ Entered(c) /\ AnsweredWith(c, 400)
        /\ input[c].body.method = Fetch /\ input[c].body.url = UrlSpaces
        /\ \E i, j \in 1..Len(Only(c).body.errors) :
              /\ Only(c).body.errors[i].path = "method"
              /\ Only(c).body.errors[j].path = "url"

InFlight == {n \in Sends : posts[n].pc = "awaiting"}
Started == {n \in Sends : posts[n].pc \in {"awaiting", "settled", "threw"}}

\* C28: at most one post of RequestBuilder is awaited at any time,
\* isLoading is true exactly while one is awaited, and a response in the
\* store was written by the run of handleSend that started last.
C28_OneRequestInFlight ==
    /\ Cardinality(InFlight) <= 1
    /\ isLoading <=> InFlight # {}
    /\ activeResponse # Null => \A n \in Started : n <= shown

\* What the store may hold after a run that posted `posted` came to an end:
\* an envelope of the proxy, or the object built from the error.
Envelopes == {proxyResponse(reply, TickMs) : reply \in OriginRepliesSeen}
FailureStatuses(posted) ==
    {0} \cup {a.status : a \in {b \in HttpAnswers[posted] : ~resolves(b.status)}}
IsErrorObject(v, posted) ==
    /\ v # Null
    /\ DOMAIN v = {"status", "statusText", "headers", "data", "responseTime", "responseSize"}
    /\ v.status \in FailureStatuses(posted)
    /\ v.responseTime = 0
    /\ v.responseSize = 0

\* C29: a run of handleSend on a non-blank url posts or fails at once, a run
\* that comes to an end leaves isLoading false and activeResponse an
\* envelope of the proxy or the error object (status of the error response
\* or 0, responseTime 0, responseSize 0), every awaited post comes to an
\* end, and a run on a blank url posts nothing and leaves the store as it
\* was.
C29_HandleSendSettles ==
    /\ [][\A n \in Sends :
             /\ (posts[n].pc = "none" /\ posts'[n].pc # "none") =>
                    IF trimString(urlInput) = <<>>
                    THEN /\ posts'[n] = [pc |-> "returned", payload |-> NoPayload]
                         /\ UNCHANGED <<isLoading, activeResponse>>
                    ELSE posts'[n].pc \in {"awaiting", "threw"}
             /\ (posts[n].pc # posts'[n].pc /\ posts'[n].pc \in {"settled", "threw"}) =>
                    /\ isLoading' = FALSE
                    /\ \/ posts[n].pc = "awaiting" /\ activeResponse' \in Envelopes
                       \/ IsErrorObject(activeResponse', posts'[n].payload)]_vars
    /\ \A n \in Sends : (posts[n].pc = "awaiting") ~> (posts[n].pc = "settled")

\* C29 witness: one run returned on a blank url, another was answered 2xx
\* and its envelope is in the store.
C29_Witness ==
    \E a, c \in Sends :
        /\ posts[a].pc = "returned"
        /\ posts[c].pc = "settled" /\ shown = c
        /\ activeResponse \in Envelopes /\ ~isLoading

\* C30: once handleDeleteCollection has returned for a collection, with
\* success or with an error, no request document in the store names a
\* collection that has no document, and a run that ended with an error has
\* removed none of the collection's requests.
C30_DeleteLeavesNoOrphans ==
    \A c \in CollectionIds :
        /\ deleting[c].pc \in {"done", "failed"} =>
               \A r \in requestsStore : r.collection_id \in collectionsStore
        /\ deleting[c].pc = "failed" => deleting[c].removed = {}

====
